---- MODULE Spec2Model ----
(***************************************************************************)
(* Model of the weather lookup service of rust-app/src/main.rs.           *)
(*                                                                         *)
(* Strings are sequences of byte codes, so that Vec<String>::sort (byte-   *)
(* wise lexicographic order) and format! (concatenation of literal text    *)
(* and arguments) are computed rather than assumed.  f64 temperatures are  *)
(* whole numbers.  A HashMap is a function whose DOMAIN is its key set;    *)
(* the order in which HashMap::keys() yields the keys is unspecified, so   *)
(* every order is possible.                                                *)
(***************************************************************************)
EXTENDS Integers, Sequences, FiniteSets, TLC

VARIABLES document, phase, weather, loads, resp

vars == <<document, phase, weather, loads, resp>>

(***************************************************************************)
(* Bounds of the model.                                                    *)
(***************************************************************************)
\* largest number of entries (countries + cities + months) of a dataset
MaxNodes == 4

\* key universes: "E" < "En" < "e" in byte order; "L", "l"; "J", "j"
CountryKeys == {<<69>>, <<69, 110>>, <<101>>}
CityKeys == {<<76>>, <<108>>}
MonthKeys == {<<74>>, <<106>>}

\* the server's worker threads
Workers == {"w1", "w2"}

(***************************************************************************)
(* Data model.                                                             *)
(***************************************************************************)
Temperature == {[high |-> 45, low |-> 36], [high |-> 36, low |-> 45]}

EmptyMap == [k \in {} |-> 0]

Insert(m, k, v) == [x \in (DOMAIN m) \cup {k} |-> IF x = k THEN v ELSE m[x]]

RECURSIVE SumOver(_, _)
SumOver(m, ks) ==
    IF ks = {} THEN 0
    ELSE LET k == CHOOSE x \in ks : TRUE
         IN m[k] + SumOver(m, ks \ {k})

CityNodes(months) == Cardinality(DOMAIN months)

CountryNodes(cities) ==
    SumOver([c \in DOMAIN cities |-> 1 + CityNodes(cities[c])], DOMAIN cities)

\* HashMap<String, Temperature> values with at most n entries
CityEntries(n) ==
    UNION {[ms -> Temperature] : ms \in {s \in SUBSET MonthKeys : Cardinality(s) <= n}}

\* HashMap<String, HashMap<String, Temperature>> values over the city keys ks
\* with at most n entries in all
RECURSIVE CountryEntries(_, _)
CountryEntries(ks, n) ==
    IF ks = {} \/ n = 0 THEN {EmptyMap}
    ELSE LET k == CHOOSE x \in ks : TRUE
             rest == ks \ {k}
         IN CountryEntries(rest, n)
            \cup UNION {{Insert(m, k, e) : m \in CountryEntries(rest, n - 1 - CityNodes(e))}
                        : e \in CityEntries(n - 1)}

\* WeatherData values over the country keys ks with at most n entries in all
RECURSIVE WeatherData(_, _)
WeatherData(ks, n) ==
    IF ks = {} \/ n = 0 THEN {EmptyMap}
    ELSE LET k == CHOOSE x \in ks : TRUE
             rest == ks \ {k}
         IN WeatherData(rest, n)
            \cup UNION {{Insert(m, k, e) : m \in WeatherData(rest, n - 1 - CountryNodes(e))}
                        : e \in CountryEntries(CityKeys, n - 1)}

\* the embedded document: text that deserializes to a dataset, or text that
\* does not (malformed JSON, wrong shape)
WEATHER_JSON ==
    {[parses |-> TRUE, value |-> d] : d \in WeatherData(CountryKeys, MaxNodes)}
    \cup {[parses |-> FALSE, value |-> EmptyMap]}

(***************************************************************************)
(* Strings.                                                                *)
(***************************************************************************)
\* byte-wise lexicographic order of str
RECURSIVE StrLess(_, _)
StrLess(a, b) ==
    IF a = <<>> THEN b # <<>>
    ELSE IF b = <<>> THEN FALSE
    ELSE IF Head(a) # Head(b) THEN Head(a) < Head(b)
    ELSE StrLess(Tail(a), Tail(b))

\* the possible results of map.keys().cloned().collect(): the key set in any order
keys(m) ==
    {v \in [1..Cardinality(DOMAIN m) -> DOMAIN m] :
        \A i, j \in 1..Cardinality(DOMAIN m) : i # j => v[i] # v[j]}

\* variant: the comparison reversed, giving descending order
RECURSIVE InsertSorted_descending(_, _)
InsertSorted_descending(s, x) ==
    IF s = <<>> THEN <<x>>
    ELSE IF StrLess(Head(s), x) THEN <<x>> \o s
    ELSE <<Head(s)>> \o InsertSorted_descending(Tail(s), x)

RECURSIVE InsertSorted(_, _)
InsertSorted(s, x) ==
    IF s = <<>> THEN <<x>>
    ELSE IF StrLess(x, Head(s)) THEN <<x>> \o s
    ELSE <<Head(s)>> \o InsertSorted(Tail(s), x)

RECURSIVE SortFrom(_, _)
SortFrom(acc, v) ==
    IF v = <<>> THEN acc ELSE SortFrom(InsertSorted(acc, Head(v)), Tail(v))

\* variant: the sort left out, the keys returned in iteration order
sort_omitted(v) == v

\* Vec<String>::sort
sort(v) == SortFrom(<<>>, v)

(***************************************************************************)
(* Responses.                                                              *)
(***************************************************************************)
NoHeaders == {}

EmptyBody == [kind |-> "empty", items |-> <<>>, detail |-> <<>>, high |-> 0, low |-> 0]

\* HttpResponse::...json(Vec<String>)
JsonStrings(v) == [kind |-> "strings", items |-> v, detail |-> <<>>, high |-> 0, low |-> 0]

\* HttpResponse::...json(ErrorResponse { detail })
ErrorResponse(detail) ==
    [kind |-> "ErrorResponse", items |-> <<>>, detail |-> detail, high |-> 0, low |-> 0]

\* variant: the two fields of the record exchanged
JsonTemperature_swapped(t) ==
    [kind |-> "Temperature", items |-> <<>>, detail |-> <<>>, high |-> t.low, low |-> t.high]

\* HttpResponse::...json(&Temperature)
JsonTemperature(t) ==
    [kind |-> "Temperature", items |-> <<>>, detail |-> <<>>, high |-> t.high, low |-> t.low]

MOVED_PERMANENTLY == 301
Ok == 200
NotFound == 404

\* "/docs/"
DocsLocation == <<47, 100, 111, 99, 115, 47>>

\* format!("Country '{}' not found", country)
CountryNotFound(country) ==
    <<67, 111, 117, 110, 116, 114, 121, 32, 39>> \o country
    \o <<39, 32, 110, 111, 116, 32, 102, 111, 117, 110, 100>>

\* variant: the two arguments in the wrong positions
CityNotFound_swapped(city, country) ==
    <<67, 105, 116, 121, 32, 39>> \o country
    \o <<39, 32, 110, 111, 116, 32, 102, 111, 117, 110, 100, 32, 105, 110, 32,
         99, 111, 117, 110, 116, 114, 121, 32, 39>> \o city \o <<39>>

\* format!("City '{}' not found in country '{}'", city, country)
CityNotFound(city, country) ==
    <<67, 105, 116, 121, 32, 39>> \o city
    \o <<39, 32, 110, 111, 116, 32, 102, 111, 117, 110, 100, 32, 105, 110, 32,
         99, 111, 117, 110, 116, 114, 121, 32, 39>> \o country \o <<39>>

\* variant: city and country in the wrong positions
MonthNotFound_swapped(month, city, country) ==
    <<77, 111, 110, 116, 104, 32, 39>> \o month
    \o <<39, 32, 110, 111, 116, 32, 102, 111, 117, 110, 100, 32, 102, 111, 114, 32,
         99, 105, 116, 121, 32, 39>> \o country
    \o <<39, 32, 105, 110, 32, 99, 111, 117, 110, 116, 114, 121, 32, 39>> \o city
    \o <<39>>

\* format!("Month '{}' not found for city '{}' in country '{}'", month, city, country)
MonthNotFound(month, city, country) ==
    <<77, 111, 110, 116, 104, 32, 39>> \o month
    \o <<39, 32, 110, 111, 116, 32, 102, 111, 117, 110, 100, 32, 102, 111, 114, 32,
         99, 105, 116, 121, 32, 39>> \o city
    \o <<39, 32, 105, 110, 32, 99, 111, 117, 110, 116, 114, 121, 32, 39>> \o country
    \o <<39>>

\* what a worker last served: the handler, its path arguments, the response
Served(handler, args, status, headers, body) ==
    [handler |-> handler, args |-> args, status |-> status, headers |-> headers,
     body |-> body]

Idle == Served("none", <<>>, 0, NoHeaders, EmptyBody)

(***************************************************************************)
(* Handlers, as functions of the shared state and the path arguments.      *)
(***************************************************************************)
root_response ==
    Served("root", <<>>, MOVED_PERMANENTLY,
           {[name |-> "Location", value |-> DocsLocation]}, EmptyBody)

\* variant: the Location without the trailing slash
docs_redirect_response_noslash ==
    Served("docs_redirect", <<>>, MOVED_PERMANENTLY,
           {[name |-> "Location", value |-> <<47, 100, 111, 99, 115>>]}, EmptyBody)

docs_redirect_response ==
    Served("docs_redirect", <<>>, MOVED_PERMANENTLY,
           {[name |-> "Location", value |-> DocsLocation]}, EmptyBody)

\* v: the order in which state.weather.keys() yielded the keys
countries_response(v) ==
    Served("countries", <<>>, Ok, NoHeaders, JsonStrings(sort(v)))

\* ASCII lower-casing
Lower(s) == [i \in 1..Len(s) |-> IF s[i] \in 65..90 THEN s[i] + 32 ELSE s[i]]

\* variant: a lookup that ignores letter case
get_ignore_case(m, k) ==
    IF \E x \in DOMAIN m : Lower(x) = Lower(k)
    THEN [some |-> TRUE, value |-> m[CHOOSE x \in DOMAIN m : Lower(x) = Lower(k)]]
    ELSE [some |-> FALSE, value |-> EmptyMap]

\* HashMap::get: exact, case-sensitive key lookup
get(m, k) ==
    IF k \in DOMAIN m THEN [some |-> TRUE, value |-> m[k]]
    ELSE [some |-> FALSE, value |-> EmptyMap]

\* v: the order in which cities.keys() yielded the keys (unused on the 404 path)
country_cities_response(state, country, v) ==
    LET cities == get(state, country)
    IN IF ~cities.some
       THEN Served("country_cities", <<country>>, NotFound, NoHeaders,
                   ErrorResponse(CountryNotFound(country)))
       ELSE Served("country_cities", <<country>>, Ok, NoHeaders, JsonStrings(sort(v)))

\* variant: a missing country reported by the message of the city level
monthly_average_response_deeper(state, country, city, month) ==
    LET cities == get(state, country)
        months == get(cities.value, city)
    IN IF ~months.some
       THEN Served("monthly_average", <<country, city, month>>, NotFound, NoHeaders,
                   ErrorResponse(CityNotFound(city, country)))
       ELSE LET temperature == get(months.value, month)
            IN IF ~temperature.some
               THEN Served("monthly_average", <<country, city, month>>, NotFound,
                           NoHeaders, ErrorResponse(MonthNotFound(month, city, country)))
               ELSE Served("monthly_average", <<country, city, month>>, Ok,
                           NoHeaders, JsonTemperature(temperature.value))

monthly_average_response(state, country, city, month) ==
    LET cities == get(state, country)
    IN IF ~cities.some
       THEN Served("monthly_average", <<country, city, month>>, NotFound, NoHeaders,
                   ErrorResponse(CountryNotFound(country)))
       ELSE LET months == get(cities.value, city)
            IN IF ~months.some
               THEN Served("monthly_average", <<country, city, month>>, NotFound,
                           NoHeaders, ErrorResponse(CityNotFound(city, country)))
               ELSE LET temperature == get(months.value, month)
                    IN IF ~temperature.some
                       THEN Served("monthly_average", <<country, city, month>>,
                                   NotFound, NoHeaders,
                                   ErrorResponse(MonthNotFound(month, city, country)))
                       ELSE Served("monthly_average", <<country, city, month>>, Ok,
                                   NoHeaders, JsonTemperature(temperature.value))

(***************************************************************************)
(* Startup.                                                                *)
(***************************************************************************)
\* variant: a parse failure replaced by the empty dataset (unwrap_or_default)
load_weather_data_or_default(doc) ==
    [panicked |-> FALSE, value |-> doc.value]

\* serde_json::from_str(WEATHER_JSON).expect(..): the dataset, or a panic
load_weather_data(doc) ==
    IF doc.parses THEN [panicked |-> FALSE, value |-> doc.value]
    ELSE [panicked |-> TRUE, value |-> EmptyMap]

Init ==
    /\ document \in WEATHER_JSON
    /\ phase = "start"
    /\ weather = EmptyMap
    /\ loads = 0
    /\ resp = [w \in Workers |-> Idle]

\* main: let app_state = web::Data::new(AppState { weather: load_weather_data() })
main_load ==
    /\ phase = "start"
    /\ loads' = loads + 1
    /\ LET r == load_weather_data(document)
       IN IF r.panicked
          THEN /\ phase' = "panicked"
               /\ weather' = weather
          ELSE /\ phase' = "loaded"
               /\ weather' = r.value
    /\ UNCHANGED <<document, resp>>

\* main: HttpServer::new(..).bind(("0.0.0.0", 8000))? .run(): the bind
\* succeeds and the workers start, or it fails and main returns the error
main_bind ==
    /\ phase = "loaded"
    /\ \E bound \in BOOLEAN : phase' = IF bound THEN "serving" ELSE "bind_error"
    /\ UNCHANGED <<document, weather, loads, resp>>

(***************************************************************************)
(* Request handling: worker w serves one request.  A handler body has no   *)
(* await between its reads of the state, and the state is reached through  *)
(* a shared immutable handle (web::Data), so one handler call is one step; *)
(* the calls of the workers interleave in any order.  The path arguments   *)
(* are the strings the handler receives from the extractor.                *)
(***************************************************************************)
root(w) ==
    /\ phase = "serving"
    /\ resp' = [resp EXCEPT ![w] = root_response]
    /\ UNCHANGED <<document, phase, weather, loads>>

docs_redirect(w) ==
    /\ phase = "serving"
    /\ resp' = [resp EXCEPT ![w] = docs_redirect_response]
    /\ UNCHANGED <<document, phase, weather, loads>>

\* variant: the handler takes the keys out of the shared map
countries_drain(w) ==
    /\ phase = "serving"
    /\ \E v \in keys(weather) : resp' = [resp EXCEPT ![w] = countries_response(v)]
    /\ weather' = EmptyMap
    /\ UNCHANGED <<document, phase, loads>>

countries(w) ==
    /\ phase = "serving"
    /\ \E v \in keys(weather) : resp' = [resp EXCEPT ![w] = countries_response(v)]
    /\ UNCHANGED <<document, phase, weather, loads>>

country_cities(w) ==
    /\ phase = "serving"
    /\ \E country \in CountryKeys :
         \E v \in keys(get(weather, country).value) :
            resp' = [resp EXCEPT ![w] = country_cities_response(weather, country, v)]
    /\ UNCHANGED <<document, phase, weather, loads>>

monthly_average(w) ==
    /\ phase = "serving"
    /\ \E country \in CountryKeys, city \in CityKeys, month \in MonthKeys :
         resp' = [resp EXCEPT ![w] = monthly_average_response(weather, country, city, month)]
    /\ UNCHANGED <<document, phase, weather, loads>>

Next ==
    \/ main_load
    \/ main_bind
    \/ \E w \in Workers : root(w)
    \/ \E w \in Workers : docs_redirect(w)
    \/ \E w \in Workers : countries(w)
    \/ \E w \in Workers : country_cities(w)
    \/ \E w \in Workers : monthly_average(w)

Spec == Init /\ [][Next]_vars

(***************************************************************************)
(* Properties.                                                             *)
(***************************************************************************)
\* strictly ascending in byte order: sorted, and no element twice
StrictlyAscending(v) == \A i \in 1..(Len(v) - 1) : StrLess(v[i], v[i + 1])

Elements(v) == {v[i] : i \in 1..Len(v)}

Quoted(s) == <<39>> \o s \o <<39>>

\* "Country " "City " "Month " " not found" " in country " " for city "
TextCountry == <<67, 111, 117, 110, 116, 114, 121, 32>>
TextCity == <<67, 105, 116, 121, 32>>
TextMonth == <<77, 111, 110, 116, 104, 32>>
TextNotFound == <<32, 110, 111, 116, 32, 102, 111, 117, 110, 100>>
TextInCountry == <<32, 105, 110, 32, 99, 111, 117, 110, 116, 114, 121, 32>>
TextForCity == <<32, 102, 111, 114, 32, 99, 105, 116, 121, 32>>

CountryDetail(country) == TextCountry \o Quoted(country) \o TextNotFound

CityDetail(city, country) ==
    TextCity \o Quoted(city) \o TextNotFound \o TextInCountry \o Quoted(country)

MonthDetail(month, city, country) ==
    TextMonth \o Quoted(month) \o TextNotFound \o TextForCity \o Quoted(city)
    \o TextInCountry \o Quoted(country)

IsError(r, detail) ==
    /\ r.status = 404
    /\ r.body.kind = "ErrorResponse"
    /\ r.body.detail = detail

IsStrings(r) == r.status = 200 /\ r.body.kind = "strings"

\* C1: GET /countries always answers 200 with a list that is sorted
\* ascending, has no duplicates and whose elements are exactly the country
\* keys of the dataset (the empty list for the empty dataset); never an error.
C1_CountriesSortedKeys ==
    \A w \in Workers :
        resp[w].handler = "countries" =>
            /\ IsStrings(resp[w])
            /\ StrictlyAscending(resp[w].body.items)
            /\ Elements(resp[w].body.items) = DOMAIN weather

C1_Witness ==
    \E w \in Workers :
        /\ resp[w].handler = "countries"
        /\ Cardinality(DOMAIN weather) = 3
        /\ Len(resp[w].body.items) = 3

\* C2: for a country that is a key of the dataset, GET /countries/{C}
\* answers 200 with that country's city names sorted ascending, the set of
\* names being exactly the city keys of C.
C2_CitiesSortedKeys ==
    \A w \in Workers :
        (resp[w].handler = "country_cities" /\ resp[w].args[1] \in DOMAIN weather) =>
            /\ IsStrings(resp[w])
            /\ StrictlyAscending(resp[w].body.items)
            /\ Elements(resp[w].body.items) = DOMAIN weather[resp[w].args[1]]

C2_Witness ==
    \E w \in Workers :
        /\ resp[w].handler = "country_cities"
        /\ resp[w].status = 200
        /\ Len(resp[w].body.items) = 2
        /\ Cardinality(DOMAIN weather) = 2

\* C3: for a string that is not exactly a key of the dataset, GET
\* /countries/{C} answers 404 with detail "Country '<C>' not found", <C>
\* verbatim; a string differing from a key only in letter case is absent.
C3_UnknownCountry404 ==
    \A w \in Workers :
        (resp[w].handler = "country_cities" /\ resp[w].args[1] \notin DOMAIN weather) =>
            IsError(resp[w], CountryDetail(resp[w].args[1]))

C3_Witness ==
    \E w \in Workers :
        /\ resp[w].handler = "country_cities"
        /\ resp[w].args[1] = <<101>>
        /\ <<101>> \notin DOMAIN weather
        /\ <<69>> \in DOMAIN weather
        /\ resp[w].status = 404

\* C4: for a triple whose country, city and month are all present, GET
\* /countries/{country}/{city}/{month} answers 200 with exactly the record
\* stored at dataset[country][city][month], never a 404.
C4_MonthlyAverageRecord ==
    \A w \in Workers :
        LET a == resp[w].args
        IN (/\ resp[w].handler = "monthly_average"
            /\ a[1] \in DOMAIN weather
            /\ a[2] \in DOMAIN weather[a[1]]
            /\ a[3] \in DOMAIN weather[a[1]][a[2]]) =>
                /\ resp[w].status = 200
                /\ resp[w].body.kind = "Temperature"
                /\ resp[w].body.high = weather[a[1]][a[2]][a[3]].high
                /\ resp[w].body.low = weather[a[1]][a[2]][a[3]].low

C4_Witness ==
    \E w \in Workers :
        LET a == resp[w].args
        IN /\ resp[w].handler = "monthly_average"
           /\ resp[w].status = 200
           /\ Cardinality(DOMAIN weather[a[1]][a[2]]) = 2
           /\ \E m \in DOMAIN weather[a[1]][a[2]] :
                 weather[a[1]][a[2]][m] # weather[a[1]][a[2]][a[3]]

\* C5: for a present (country, city) pair and a month that is not a key of
\* that city, the answer is 404 with detail "Month '<month>' not found for
\* city '<city>' in country '<C>'", the three strings verbatim in that order.
C5_UnknownMonth404 ==
    \A w \in Workers :
        LET a == resp[w].args
        IN (/\ resp[w].handler = "monthly_average"
            /\ a[1] \in DOMAIN weather
            /\ a[2] \in DOMAIN weather[a[1]]
            /\ a[3] \notin DOMAIN weather[a[1]][a[2]]) =>
                IsError(resp[w], MonthDetail(a[3], a[2], a[1]))

C5_Witness ==
    \E w \in Workers :
        LET a == resp[w].args
        IN /\ resp[w].handler = "monthly_average"
           /\ a[1] \in DOMAIN weather
           /\ a[2] \in DOMAIN weather[a[1]]
           /\ a[3] \notin DOMAIN weather[a[1]][a[2]]
           /\ DOMAIN weather[a[1]][a[2]] # {}
           /\ resp[w].status = 404

\* C6: for a present country and a city that is not a key of that country
\* (even one that exists under another country), the answer is 404 with
\* detail "City '<city>' not found in country '<country>'", whatever the month.
C6_UnknownCity404 ==
    \A w \in Workers :
        LET a == resp[w].args
        IN (/\ resp[w].handler = "monthly_average"
            /\ a[1] \in DOMAIN weather
            /\ a[2] \notin DOMAIN weather[a[1]]) =>
                IsError(resp[w], CityDetail(a[2], a[1]))

C6_Witness ==
    \E w \in Workers :
        LET a == resp[w].args
        IN /\ resp[w].handler = "monthly_average"
           /\ a[1] \in DOMAIN weather
           /\ a[2] \notin DOMAIN weather[a[1]]
           /\ \E c \in DOMAIN weather :
                 a[2] \in DOMAIN weather[c] /\ a[3] \in DOMAIN weather[c][a[2]]
           /\ resp[w].status = 404

\* C7: the lookup goes country, then city, then month, and the first missing
\* key decides the error: with an absent country the answer is the
\* country-not-found 404, never the city or month message, whatever the
\* city and month are.
C7_CountryMissFirst ==
    \A w \in Workers :
        LET a == resp[w].args
        IN (resp[w].handler = "monthly_average" /\ a[1] \notin DOMAIN weather) =>
                /\ IsError(resp[w], CountryDetail(a[1]))
                /\ resp[w].body.detail # CityDetail(a[2], a[1])
                /\ resp[w].body.detail # MonthDetail(a[3], a[2], a[1])

C7_Witness ==
    \E w \in Workers :
        LET a == resp[w].args
        IN /\ resp[w].handler = "monthly_average"
           /\ a[1] \notin DOMAIN weather
           /\ \E c \in DOMAIN weather :
                 a[2] \in DOMAIN weather[c] /\ a[3] \in DOMAIN weather[c][a[2]]
           /\ resp[w].status = 404

\* C8: once loaded the dataset never changes: whatever requests the workers
\* have served, in whatever interleaving, the shared dataset is the one that
\* was loaded, and two answers to the same request are the same answer.
C8_DatasetImmutable ==
    phase = "serving" =>
        /\ weather = document.value
        /\ \A w1, w2 \in Workers :
              (resp[w1].handler = resp[w2].handler /\ resp[w1].args = resp[w2].args)
                  => resp[w1] = resp[w2]

C8_Witness ==
    /\ phase = "serving"
    /\ Cardinality(DOMAIN weather) >= 2
    /\ resp["w1"].handler = "countries"
    /\ resp["w2"].handler = "countries"

\* C9: the dataset is loaded exactly once, before the server binds and
\* serves; when the embedded document does not parse the process stops
\* during startup and no request is ever served.
C9_LoadOnceOrAbort ==
    /\ loads <= 1
    /\ phase \in {"loaded", "serving", "bind_error"} =>
          (loads = 1 /\ document.parses /\ weather = document.value)
    /\ phase # "serving" => \A w \in Workers : resp[w] = Idle
    /\ ~document.parses =>
          (phase \in {"start", "panicked"} /\ \A w \in Workers : resp[w] = Idle)
    /\ phase = "panicked" => ~document.parses

C9_Witness ==
    /\ phase = "panicked"
    /\ loads = 1
    /\ ~document.parses

\* C10: GET / and GET /docs always answer 301 with the Location header
\* "/docs/", whatever the dataset and whatever else was served.
C10_RedirectsToDocs ==
    \A w \in Workers :
        resp[w].handler \in {"root", "docs_redirect"} =>
            /\ resp[w].status = 301
            /\ resp[w].headers = {[name |-> "Location", value |-> <<47, 100, 111, 99, 115, 47>>]}

C10_Witness ==
    /\ resp["w1"].handler = "root"
    /\ resp["w2"].handler = "docs_redirect"
    /\ weather # EmptyMap

====
